---- MODULE Spec2Model ----
(***************************************************************************)
(* The "prompt" edge function of xpo-lm                                    *)
(* (src/supabase/functions/prompt/index.ts): one request travelling        *)
(* through createClient, req.json, generateEmbeddings, the match_documents *)
(* RPC, the parseExpoDocs fan-out, buildFullPrompt, getCompletion and the  *)
(* response sites.  Strings are sequences of tokens; every await of the    *)
(* handler is one position of pc and every settlement of an awaited call   *)
(* is one action.                                                          *)
(***************************************************************************)
EXTENDS Integers, Sequences, FiniteSets, TLC

\* ---------------------------------------------------------------- bounds
\* Number of rows of the documents table.
CorpusSize == 4
\* Largest match_count a caller of match_documents passes.
MaxLimit == 3
\* Dimensionality of the stored vectors (stands for vector(384)).
Dim == 2
\* Longest query and longest context (in tokens) handed to buildFullPrompt
\* on its own.
MaxTokens == 2
\* Number of prompts the user of the chat screen sends.
MaxPrompts == 3

\* ------------------------------------------------------ program constants
\* match_threshold: 0.3, in tenths.
MatchThreshold == 3
\* match_count: 3.
MatchCount == 3
\* similarity = 1 - distance, in tenths.
One == 10

\* --------------------------------------------------------------- strings
NL == "\n"
SP == " "
FENCE == "---"
\* JavaScript's null and undefined, as values no string is equal to.
Null == <<"<null>">>
Undefined == <<"<undefined>">>

\* The fixed texts of the program (its typographic apostrophe written ').
ClarificationMessage ==
    <<"I'm sorry, but my knowledge is limited to Expo. Could you clarify what you're looking for regarding Expo projects?">>
MatchErrorMessage == <<"Error matching documents.">>
RequestErrorMessage == <<"There was an error processing your request.">>
FallbackCompletion ==
    <<"I'm sorry, but I had trouble generating an answer. Please try again.">>

\* ---------------------------------------------------------------- inputs
\* Values of the "query" member of a parsed request body.
Queries == { <<"How do I submit a project?">>, <<>>, Undefined }
\* What req.json() can settle with: a rejection, the JSON value null, or an
\* object (whose query member is drawn from Queries).
BodyKinds == { "badjson", "null", "object" }
\* Environment of the function: both variables set, or one missing.
Envs == { "set", "unset" }

Corpus == 1..CorpusSize
\* Cosine distances (tenths) of the stored embeddings to the query vector:
\* similarity 0.8, 0.5, 0.3 (exactly the threshold) .
Dists == { 2, 5, 7 }

\* Raw .mdx payloads served for a slug.
BadYaml == "{bad yaml"
Contents ==
    { <<"body-a">>,
      <<FENCE, "title: x", FENCE, NL, "body-b">>,
      <<FENCE, "title: x", FENCE, NL>>,
      <<FENCE, BadYaml, FENCE, NL, "body-a">> }

\* Text of the first choice of a completion.
ModelTexts == { <<"answer">> }

\* ------------------------------------------------------------------ state
VARIABLES
    pc,          \* position of the handler
    query,       \* const { query } = await req.json()
    vector,      \* const vector = await generateEmbeddings(query)
    rpcArg,      \* query_embedding handed to supabase.rpc
    similarDocs, \* data of the RPC reply
    rpcError,    \* error of the RPC reply
    fpc,         \* position of each parseExpoDocs call
    fetched,     \* what each parseExpoDocs call returned, and why
    completed,   \* indices of the parseExpoDocs calls in completion order
    docsBodies,  \* docs.map(doc => doc.body || "").join("\n")
    filledPrompt,\* buildFullPrompt(query, docsBodies)
    answer,      \* await getCompletion(filledPrompt)
    response,    \* the Response the handler returned
    calls,       \* number of calls made to each collaborator
    provider,    \* how the calls to OpenAI and to the store settled
    hung,        \* the outbound call being awaited will never settle
    disconnected,\* the caller of the request has closed the connection
    matcher,     \* a call of match_documents with arbitrary arguments
    assembler,   \* calls of buildFullPrompt with arbitrary arguments
    current,     \* the request whose continuation the event loop runs
    parked,      \* the locals of the requests waiting at an await
    queryText,   \* App: const [query, setQuery] = useState('')
    messages,    \* App: const [messages, setMessages] = useState([])
    loading,     \* App: const [loading, setLoading] = useState(false)
    showSuggestions, \* App: const [showSuggestions, ...] = useState(true)
    invokes      \* App: the runPrompt calls that went past their guard

vars == << pc, query, vector, rpcArg, similarDocs, rpcError, fpc, fetched,
           completed, docsBodies, filledPrompt, answer, response, calls,
           provider, hung, disconnected, matcher, assembler, current,
           parked, queryText, messages, loading, showSuggestions, invokes >>

\* The state of the chat screen.
app == << queryText, messages, loading, showSuggestions, invokes >>

\* The state outside the request.
others == << matcher, assembler, current, parked, app >>

NoResponse == [status |-> 0, message |-> Null, docs |-> <<>>]
NoData == [isNull |-> TRUE, rows |-> <<>>]
NoAnswer == [defined |-> FALSE, content |-> Null]
NoCalls == [embed |-> 0, match |-> 0, fetch |-> 0, prompt |-> 0, gen |-> 0]
NoOutcome == [embed |-> "none", rpc |-> << FALSE, NoData >>, gen |-> "none"]

\* new Response(JSON.stringify({message, docs}), {status}); status defaults
\* to 200.
Response(status, message, docs) ==
    [status |-> status, message |-> message, docs |-> docs]

\* The four response sites of the handler.
MatchErrorResponse_Status200 == Response(200, MatchErrorMessage, <<>>)
MatchErrorResponse_Collapsed == Response(200, ClarificationMessage, <<>>)
MatchErrorResponse == Response(500, MatchErrorMessage, <<>>)
NoMatchResponse == Response(200, ClarificationMessage, <<>>)
\* (variant: only the rows whose document was loaded are returned)
RECURSIVE Loaded(_, _)
Loaded(rows, i) ==
    IF i > Len(rows) THEN <<>>
    ELSE (IF fetched[i].failure = "none" THEN <<rows[i]>> ELSE <<>>)
         \o Loaded(rows, i + 1)
SuccessResponse_DropFailed(ans, data) ==
    Response(200, ans.content, Loaded(data.rows, 1))
SuccessResponse(ans, data) == Response(200, ans.content, data.rows)
\* (variant: the caught error's text is sent back)
OuterCatch_LeaksError ==
    Response(500, <<"TypeError: Cannot read properties of undefined (reading 'message')">>, <<>>)
OuterCatch == Response(500, RequestErrorMessage, <<>>)

\* !similarDocs || similarDocs.length === 0
NoMatch_NullOnly(data) == data.isNull
NoMatch(data) == data.isNull \/ Len(data.rows) = 0

\* -------------------------------------------------------- pure functions
Range(s) == { s[i] : i \in 1..Len(s) }

\* Array.prototype.join("\n") over an array of strings.
RECURSIVE Join(_)
Join(parts) ==
    IF Len(parts) = 0 THEN <<>>
    ELSE IF Len(parts) = 1 THEN parts[1]
    ELSE parts[1] \o <<NL>> \o Join(Tail(parts))

\* Index of the fence that closes a front-matter block opened at token 1,
\* 0 when there is none.
ClosingFence(content) ==
    LET cands == { i \in 2..Len(content) : content[i] = FENCE }
    IN  IF cands = {} THEN 0
        ELSE CHOOSE i \in cands : \A j \in cands : i <= j

\* fm(content) of front-matter@4.0.2: a leading fenced block is parsed as
\* YAML (which can throw) and cut off together with the line break that
\* follows it; a text without such a block is its own body.
Fm(content) ==
    IF Len(content) > 0 /\ content[1] = FENCE /\ ClosingFence(content) > 0
    THEN LET c == ClosingFence(content)
             yaml == SubSeq(content, 2, c - 1)
             rest == SubSeq(content, c + 1, Len(content))
         IN  IF BadYaml \in Range(yaml)
             THEN [threw |-> TRUE, body |-> <<>>]
             ELSE [threw |-> FALSE,
                   body |-> IF Len(rest) > 0 /\ rest[1] = NL
                            THEN Tail(rest) ELSE rest]
    ELSE [threw |-> FALSE, body |-> content]

\* String.prototype.trim().
IsSpace(t) == t \in { NL, SP }
RECURSIVE TrimStart(_)
TrimStart(s) ==
    IF Len(s) > 0 /\ IsSpace(s[1]) THEN TrimStart(Tail(s)) ELSE s
RECURSIVE TrimEnd(_)
TrimEnd(s) ==
    IF Len(s) > 0 /\ IsSpace(s[Len(s)])
    THEN TrimEnd(SubSeq(s, 1, Len(s) - 1)) ELSE s
Trim(s) == TrimEnd(TrimStart(s))

\* A value interpolated in a template literal.
ToText(v) == IF v = Undefined THEN <<"undefined">> ELSE v

\* The template literal of buildFullPrompt, cut at its two interpolations.
PromptHead ==
    << NL, "You are an AI specialized in answering questions about Expo projects.", SP,
       NL, "You have the following CONTEXT as your entire knowledge base.", SP,
       NL, "If the user asks for anything outside the CONTEXT or the question cannot be answered with the CONTEXT,", SP,
       NL, "respond with a short clarifying question such as:", SP,
       NL, "\"" >> \o ClarificationMessage \o << "\"",
       NL, "Encourage the user to clarify or rephrase if necessary.",
       NL, NL, "CONTEXT:", NL >>
PromptMiddle == << NL, NL, "USER QUERY: " >>
PromptTail ==
    << NL, NL, "Answer ONLY with information found in CONTEXT. If the information is not found, respond with:",
       NL, "\"" >> \o ClarificationMessage \o << "\"",
       NL, NL, "Final Answer:", NL, SP, SP >>

\* (variant: each interpolated value is trimmed as well)
buildFullPrompt_TrimsParts(q, docsContext) ==
    Trim(PromptHead \o Trim(docsContext) \o PromptMiddle \o Trim(ToText(q))
         \o PromptTail)
buildFullPrompt(q, docsContext) ==
    Trim(PromptHead \o docsContext \o PromptMiddle \o ToText(q) \o PromptTail)

\* match_documents: the rows whose similarity exceeds the threshold, by
\* ascending distance, cut at match_count.  Rows at equal distance come in
\* an order SQL leaves open, so the result is a set of possible sequences.
Similarity(d) == One - d
Row(id, dist) == [id |-> id, similarity |-> Similarity(dist[id])]
Min(a, b) == IF a < b THEN a ELSE b
\* (variant: where ... >= match_threshold)
match_documents_Inclusive(dist, match_threshold, match_count) ==
    LET qual == { id \in Corpus : Similarity(dist[id]) >= match_threshold }
        n == Min(match_count, Cardinality(qual))
        picks == { s \in [1..n -> qual] :
                     /\ \A i, j \in 1..n : i < j =>
                            s[i] # s[j] /\ dist[s[i]] <= dist[s[j]]
                     /\ \A id \in qual \ { s[i] : i \in 1..n } :
                            \A i \in 1..n : dist[s[i]] <= dist[id] }
    IN  { [i \in 1..n |-> Row(s[i], dist)] : s \in picks }
\* (variant: order by ... desc)
match_documents_Descending(dist, match_threshold, match_count) ==
    LET qual == { id \in Corpus : Similarity(dist[id]) > match_threshold }
        n == Min(match_count, Cardinality(qual))
        picks == { s \in [1..n -> qual] :
                     /\ \A i, j \in 1..n : i < j =>
                            s[i] # s[j] /\ dist[s[i]] >= dist[s[j]]
                     /\ \A id \in qual \ { s[i] : i \in 1..n } :
                            \A i \in 1..n : dist[s[i]] >= dist[id] }
    IN  { [i \in 1..n |-> Row(s[i], dist)] : s \in picks }
match_documents(dist, match_threshold, match_count) ==
    LET qual == { id \in Corpus : Similarity(dist[id]) > match_threshold }
        n == Min(match_count, Cardinality(qual))
        picks == { s \in [1..n -> qual] :
                     /\ \A i, j \in 1..n : i < j =>
                            s[i] # s[j] /\ dist[s[i]] <= dist[s[j]]
                     /\ \A id \in qual \ { s[i] : i \in 1..n } :
                            \A i \in 1..n : dist[s[i]] <= dist[id] }
    IN  { [i \in 1..n |-> Row(s[i], dist)] : s \in picks }

\* Promise.all: the results by position of the promise in the input array.
\* (variant: the results in the order the promises were fulfilled)
PromiseAll_CompletionOrder(results, order) ==
    [i \in 1..Len(results) |-> results[order[i]]]
PromiseAll(results, order) ==
    [i \in 1..Len(results) |-> results[i]]

\* docs.map((doc) => doc.body || "").join("\n")
BodyOrEmpty(doc) == IF doc.body = Undefined THEN <<>> ELSE doc.body
MergeBodies(docs) == Join([i \in 1..Len(docs) |-> BodyOrEmpty(docs[i])])

\* No call of match_documents outside the request.
MatcherIdle ==
    [pc |-> "off", threshold |-> 0, count |-> 0,
     dist |-> [id \in Corpus |-> 0], rows |-> <<>>]

\* No call of buildFullPrompt outside the request.
AssemblerIdle ==
    [pc |-> "off", query |-> <<>>, docsContext |-> <<>>, prompt |-> <<>>,
     again |-> <<>>]

\* The chat screen after its first render: the initial values of useState.
AppInit ==
    /\ queryText = <<>>
    /\ messages = <<>>
    /\ loading = FALSE
    /\ showSuggestions = TRUE
    /\ invokes = <<>>

\* ----------------------------------------------------------------- Init
Init ==
    /\ pc = "idle"
    /\ query = Undefined
    /\ vector = <<>>
    /\ rpcArg = <<>>
    /\ similarDocs = NoData
    /\ rpcError = FALSE
    /\ fpc = <<>>
    /\ fetched = <<>>
    /\ completed = <<>>
    /\ docsBodies = <<>>
    /\ filledPrompt = <<>>
    /\ answer = NoAnswer
    /\ response = NoResponse
    /\ calls = NoCalls
    /\ provider = NoOutcome
    /\ hung = FALSE
    /\ disconnected = FALSE
    /\ AppInit
    /\ matcher = MatcherIdle
    /\ assembler = AssemblerIdle
    /\ current = "a"
    /\ parked = <<>>

\* return new Response(...): the handler is over.
Respond(r) ==
    /\ response' = r
    /\ pc' = "responded"

\* A request arrives: createClient(SUPABASE_URL ?? "", SUPABASE_ANON_KEY ?? "")
\* runs before the try block; supabase-js throws on an empty URL or key, and
\* that exception leaves the handler.  Otherwise req.json() is awaited.
Serve ==
    /\ ~hung
    /\ UNCHANGED << hung, disconnected, others >>
    /\ pc = "idle"
    /\ \E env \in Envs :
          pc' = IF env = "unset" THEN "thrown" ELSE "json"
    /\ UNCHANGED << query, vector, rpcArg, similarDocs, rpcError, fpc,
                    fetched, completed, docsBodies, filledPrompt, answer,
                    response, calls, provider >>

\* req.json() settles.  A rejection, and the destructuring of null, land in
\* the outer catch; otherwise generateEmbeddings(query) is called and the
\* provider call is awaited.
JsonSettles ==
    /\ ~hung
    /\ UNCHANGED << hung, disconnected, others >>
    /\ pc = "json"
    /\ \E kind \in BodyKinds :
          IF kind = "object"
          THEN /\ \E q \in Queries : query' = q
               /\ calls' = [calls EXCEPT !.embed = @ + 1]
               /\ pc' = "embedding"
               /\ UNCHANGED response
          ELSE /\ Respond(OuterCatch)
               /\ UNCHANGED << query, calls >>
    /\ UNCHANGED << vector, rpcArg, similarDocs, rpcError, fpc, fetched,
                    completed, docsBodies, filledPrompt, answer, provider >>

\* The vector type of the deployed embedding model.
ModelVector == [i \in 1..Dim |-> 1]

\* generateEmbeddings: the provider's vector, or [] when anything in the
\* try block threw.  The provider rejects an input that is missing or empty.
\* (variant: a failure yields a placeholder vector of the model's size)
generateEmbeddings_Placeholder(input, providerOk) == ModelVector
EmbeddingOk(input, providerOk) ==
    providerOk /\ input # Undefined /\ input # <<>>
generateEmbeddings(input, providerOk) ==
    IF EmbeddingOk(input, providerOk) THEN ModelVector ELSE <<>>

\* openai.embeddings.create settles; the handler goes on to supabase.rpc
\* with the vector it got.
EmbeddingSettles ==
    /\ ~hung
    /\ UNCHANGED << hung, disconnected, others >>
    /\ pc = "embedding"
    /\ \E providerOk \in BOOLEAN :
          /\ vector' = generateEmbeddings(query, providerOk)
          /\ provider' = [provider EXCEPT !.embed =
                IF EmbeddingOk(query, providerOk) THEN "ok" ELSE "failed"]
    /\ rpcArg' = vector'
    /\ calls' = [calls EXCEPT !.match = @ + 1]
    /\ pc' = "matching"
    /\ UNCHANGED << query, similarDocs, rpcError, fpc, fetched, completed,
                    docsBodies, filledPrompt, answer, response >>

\* What the RPC can reply, as <<error, data>>: a transport or store error
\* (the only reply to a vector that is not of the stored dimensionality,
\* the empty one included); for a vector of the stored dimensionality also
\* a null data, or the rows of match_documents for some content of the
\* documents table.
\* (variant: query_embedding is not typed as a vector of the stored size, so
\* any array is compared and rows come back)
RpcReplies_Unchecked(arg) ==
    { << TRUE, NoData >>, << FALSE, NoData >> } \cup
    { << FALSE, [isNull |-> FALSE, rows |-> rows] >> :
        rows \in UNION { match_documents(dist, MatchThreshold, MatchCount) :
                            dist \in [Corpus -> Dists] } }
RpcReplies(arg) ==
    { << TRUE, NoData >> }
    \cup (IF Len(arg) # Dim THEN {}
          ELSE { << FALSE, NoData >> } \cup
               { << FALSE, [isNull |-> FALSE, rows |-> rows] >> :
                   rows \in UNION { match_documents(dist, MatchThreshold, MatchCount) :
                                       dist \in [Corpus -> Dists] } })

\* similarDocs.map((doc) => parseExpoDocs(doc.id)): every call runs up to its
\* await of fetch(url).
\* (variant: every document is requested a second time)
StartFetches_Twice(rows) ==
    /\ fpc' = [i \in 1..Len(rows) |-> "fetch"]
    /\ fetched' = [i \in 1..Len(rows) |-> [failure |-> "none", body |-> <<>>]]
    /\ calls' = [calls EXCEPT !.fetch = @ + 2 * Len(rows)]
StartFetches(rows) ==
    /\ fpc' = [i \in 1..Len(rows) |-> "fetch"]
    /\ fetched' = [i \in 1..Len(rows) |-> [failure |-> "none", body |-> <<>>]]
    /\ calls' = [calls EXCEPT !.fetch = @ + Len(rows)]

\* supabase.rpc settles: the error branch, the no-match branch, or the
\* fan-out of the fetches.
RpcSettles ==
    /\ ~hung
    /\ UNCHANGED << hung, disconnected, others >>
    /\ pc = "matching"
    /\ \E reply \in RpcReplies(rpcArg) :
          /\ rpcError' = reply[1]
          /\ similarDocs' = reply[2]
          /\ provider' = [provider EXCEPT !.rpc = reply]
          /\ IF reply[1]
             THEN /\ Respond(MatchErrorResponse)
                  /\ UNCHANGED << fpc, fetched, calls >>
             ELSE IF NoMatch(reply[2])
             THEN /\ Respond(NoMatchResponse)
                  /\ UNCHANGED << fpc, fetched, calls >>
             ELSE /\ StartFetches(reply[2].rows)
                  /\ pc' = "fetching"
                  /\ UNCHANGED response
    /\ UNCHANGED << query, vector, rpcArg, completed, docsBodies,
                    filledPrompt, answer >>

\* parseExpoDocs(slug) returns doc: its promise is fulfilled.
FetchReturns(i, failure, body) ==
    /\ fpc' = [fpc EXCEPT ![i] = "done"]
    /\ fetched' = [fetched EXCEPT ![i] = [failure |-> failure, body |-> body]]
    /\ completed' = Append(completed, i)

\* fetch(url) of call i settles: it throws, answers non-2xx, or answers 2xx
\* and response.text() is awaited.
FetchSettles(i) ==
    /\ ~hung
    /\ UNCHANGED << hung, disconnected, others >>
    /\ pc = "fetching"
    /\ i \in 1..Len(fpc)
    /\ fpc[i] = "fetch"
    /\ \E outcome \in { "throws", "notok", "ok" } :
          CASE outcome = "throws" -> FetchReturns(i, "network", <<>>)
            [] outcome = "notok" -> FetchReturns(i, "status", <<>>)
            [] outcome = "ok" ->
                 /\ fpc' = [fpc EXCEPT ![i] = "text"]
                 /\ UNCHANGED << fetched, completed >>
    /\ UNCHANGED << pc, query, vector, rpcArg, similarDocs, rpcError,
                    docsBodies, filledPrompt, answer, response, calls,
                    provider >>

\* response.text() of call i settles and fm(content) runs: a throw of
\* either lands in the catch of parseExpoDocs.
TextSettles(i) ==
    /\ ~hung
    /\ UNCHANGED << hung, disconnected, others >>
    /\ pc = "fetching"
    /\ i \in 1..Len(fpc)
    /\ fpc[i] = "text"
    /\ \/ FetchReturns(i, "network", <<>>)
       \/ \E content \in Contents :
             IF Fm(content).threw
             THEN FetchReturns(i, "parse", <<>>)
             ELSE FetchReturns(i, "none", Fm(content).body)
    /\ UNCHANGED << pc, query, vector, rpcArg, similarDocs, rpcError,
                    docsBodies, filledPrompt, answer, response, calls,
                    provider >>

\* await Promise.all(...) resumes when every promise of the array is
\* fulfilled (parseExpoDocs never rejects).
\* (variant: Promise.race, which resumes with the first one)
PromiseAllFulfilled_First(positions) ==
    \E i \in 1..Len(positions) : positions[i] = "done"
PromiseAllFulfilled(positions) ==
    \A i \in 1..Len(positions) : positions[i] = "done"

\* Promise.all is fulfilled: the bodies are merged, the prompt is built and
\* getCompletion(filledPrompt) awaits the provider.
FanIn ==
    /\ ~hung
    /\ UNCHANGED << hung, disconnected, others >>
    /\ pc = "fetching"
    /\ PromiseAllFulfilled(fpc)
    /\ LET docs == PromiseAll(fetched, completed)
       IN  /\ docsBodies' = MergeBodies(docs)
           /\ filledPrompt' = buildFullPrompt(query, docsBodies')
    /\ calls' = [calls EXCEPT !.prompt = @ + 1, !.gen = @ + 1]
    /\ pc' = "generating"
    /\ UNCHANGED << query, vector, rpcArg, similarDocs, rpcError, fpc,
                    fetched, completed, answer, response, provider >>

\* What openai.chat.completions.create can settle with.
Completions ==
    { [kind |-> "throws", content |-> Null],
      [kind |-> "nochoices", content |-> Null],
      [kind |-> "choice", content |-> Null] }
    \cup { [kind |-> "choice", content |-> t] : t \in ModelTexts }

\* getCompletion: response.choices[0] (undefined for an empty choices
\* array), or the fallback choice when the call threw.
\* (variant: the catch rethrows, so the caller gets no choice)
getCompletion_Rethrow(c) ==
    IF c.kind = "choice" THEN [defined |-> TRUE, content |-> c.content]
    ELSE NoAnswer
getCompletion(c) ==
    CASE c.kind = "throws" -> [defined |-> TRUE, content |-> FallbackCompletion]
      [] c.kind = "nochoices" -> NoAnswer
      [] c.kind = "choice" -> [defined |-> TRUE, content |-> c.content]

\* The completion settles: answer.message.content is read (a TypeError on
\* undefined, caught by the outer catch) and the success response is built
\* with the RPC's rows.
CompletionSettles ==
    /\ ~hung
    /\ UNCHANGED << hung, disconnected, others >>
    /\ pc = "generating"
    /\ \E c \in Completions :
          /\ answer' = getCompletion(c)
          /\ provider' = [provider EXCEPT !.gen = c.kind]
          /\ IF answer'.defined
             THEN Respond(SuccessResponse(answer', similarDocs))
             ELSE Respond(OuterCatch)
    /\ UNCHANGED << query, vector, rpcArg, similarDocs, rpcError, fpc,
                    fetched, completed, docsBodies, filledPrompt, calls >>

\* An outbound call (embeddings, rpc, fetch or response.text, completion)
\* never settles: no call is given a timeout or an abort signal, so the
\* await it is under never resumes.
Awaiting ==
    \/ pc \in { "embedding", "matching", "generating" }
    \/ pc = "fetching" /\ \E i \in 1..Len(fpc) : fpc[i] # "done"
Hang ==
    /\ ~hung
    /\ Awaiting
    /\ hung' = TRUE
    /\ UNCHANGED << pc, query, vector, rpcArg, similarDocs, rpcError, fpc,
                    fetched, completed, docsBodies, filledPrompt, answer,
                    response, calls, provider, disconnected, others >>

\* The caller closes the connection while its request is at an await.  The
\* runtime aborts req.signal; the handler never reads it and passes no
\* signal to any call, so nothing of the request changes.
InProgress ==
    pc \in { "json", "embedding", "matching", "fetching", "generating" }
Disconnect ==
    /\ InProgress
    /\ ~disconnected
    /\ disconnected' = TRUE
    /\ UNCHANGED << pc, query, vector, rpcArg, similarDocs, rpcError, fpc,
                    fetched, completed, docsBodies, filledPrompt, answer,
                    response, calls, provider, hung, others >>

Next ==
    \/ Serve
    \/ JsonSettles
    \/ EmbeddingSettles
    \/ RpcSettles
    \/ \E i \in 1..MatchCount : FetchSettles(i)
    \/ \E i \in 1..MatchCount : TextSettles(i)
    \/ FanIn
    \/ CompletionSettles
    \/ Hang
    \/ Disconnect

Spec == Init /\ [][Next]_vars

\* The event loop runs every continuation that is ready.
FairSpec == Spec /\ WF_vars(Next)

\* ------------------------------------------------- match_documents alone
\* The arguments a caller can pass: any threshold in [0, 1] (tenths), any
\* positive count, against any content of the documents table.
Thresholds == 0..One
Limits == 1..MaxLimit

MatcherInit ==
    /\ pc = "idle"
    /\ query = Undefined
    /\ vector = <<>>
    /\ rpcArg = <<>>
    /\ similarDocs = NoData
    /\ rpcError = FALSE
    /\ fpc = <<>>
    /\ fetched = <<>>
    /\ completed = <<>>
    /\ docsBodies = <<>>
    /\ filledPrompt = <<>>
    /\ answer = NoAnswer
    /\ response = NoResponse
    /\ calls = NoCalls
    /\ provider = NoOutcome
    /\ hung = FALSE
    /\ disconnected = FALSE
    /\ AppInit
    /\ assembler = AssemblerIdle
    /\ current = "a"
    /\ parked = <<>>
    /\ matcher \in { [pc |-> "called", threshold |-> t, count |-> n,
                      dist |-> d, rows |-> <<>>] :
                       t \in Thresholds, n \in Limits, d \in [Corpus -> Dists] }

\* The function returns its table.
MatcherReturns ==
    /\ matcher.pc = "called"
    /\ \E rows \in match_documents(matcher.dist, matcher.threshold,
                                    matcher.count) :
          matcher' = [matcher EXCEPT !.pc = "returned", !.rows = rows]
    /\ UNCHANGED << pc, query, vector, rpcArg, similarDocs, rpcError, fpc,
                    fetched, completed, docsBodies, filledPrompt, answer,
                    response, calls, provider, hung, disconnected, assembler,
                    current, parked, app >>

MatcherNext == MatcherReturns

MatcherSpec == MatcherInit /\ [][MatcherNext]_vars

\* ------------------------------------------------- buildFullPrompt alone
\* The strings a caller can pass: any text of at most MaxTokens tokens, white
\* space and the function's own section titles included.
Texts(tokens) == UNION { [1..n -> tokens] : n \in 0..MaxTokens }
PromptQueries == Texts({ SP, NL, "How do I submit a project?" })
PromptContexts == Texts({ SP, NL, "body-a", "USER QUERY: " })

PromptInit ==
    /\ pc = "idle"
    /\ query = Undefined
    /\ vector = <<>>
    /\ rpcArg = <<>>
    /\ similarDocs = NoData
    /\ rpcError = FALSE
    /\ fpc = <<>>
    /\ fetched = <<>>
    /\ completed = <<>>
    /\ docsBodies = <<>>
    /\ filledPrompt = <<>>
    /\ answer = NoAnswer
    /\ response = NoResponse
    /\ calls = NoCalls
    /\ provider = NoOutcome
    /\ hung = FALSE
    /\ disconnected = FALSE
    /\ AppInit
    /\ matcher = MatcherIdle
    /\ current = "a"
    /\ parked = <<>>
    /\ assembler \in { [pc |-> "called", query |-> q, docsContext |-> c,
                        prompt |-> <<>>, again |-> <<>>] :
                         q \in PromptQueries, c \in PromptContexts }

\* The function returns the prompt.
AssemblerReturns ==
    /\ assembler.pc = "called"
    /\ assembler' = [assembler EXCEPT
          !.pc = "returned",
          !.prompt = buildFullPrompt(assembler.query, assembler.docsContext)]
    /\ UNCHANGED << pc, query, vector, rpcArg, similarDocs, rpcError, fpc,
                    fetched, completed, docsBodies, filledPrompt, answer,
                    response, calls, provider, hung, disconnected, matcher,
                    current, parked, app >>

\* The function is called a second time with the same arguments.
AssemblerReturnsAgain ==
    /\ assembler.pc = "returned"
    /\ assembler' = [assembler EXCEPT
          !.pc = "again",
          !.again = buildFullPrompt(assembler.query, assembler.docsContext)]
    /\ UNCHANGED << pc, query, vector, rpcArg, similarDocs, rpcError, fpc,
                    fetched, completed, docsBodies, filledPrompt, answer,
                    response, calls, provider, hung, disconnected, matcher,
                    current, parked, app >>

PromptNext == AssemblerReturns \/ AssemblerReturnsAgain

PromptSpec == PromptInit /\ [][PromptNext]_vars

\* ------------------------------------------------- concurrent requests
\* Deno.serve calls the handler once per request; each call has its own
\* locals, and the event loop runs one continuation at a time, switching at
\* the awaits.  The module keeps nothing but the openai client, which the
\* handler never assigns.
Requests == { "a", "b" }

\* The locals of the running call.
Locals ==
    [pc |-> pc, query |-> query, vector |-> vector, rpcArg |-> rpcArg,
     similarDocs |-> similarDocs, rpcError |-> rpcError, fpc |-> fpc,
     fetched |-> fetched, completed |-> completed, docsBodies |-> docsBodies,
     filledPrompt |-> filledPrompt, answer |-> answer, response |-> response,
     calls |-> calls, provider |-> provider, hung |-> hung,
     disconnected |-> disconnected]

\* The locals of a call that has not started.
FreshLocals ==
    [pc |-> "idle", query |-> Undefined, vector |-> <<>>, rpcArg |-> <<>>,
     similarDocs |-> NoData, rpcError |-> FALSE, fpc |-> <<>>,
     fetched |-> <<>>, completed |-> <<>>, docsBodies |-> <<>>,
     filledPrompt |-> <<>>, answer |-> NoAnswer, response |-> NoResponse,
     calls |-> NoCalls, provider |-> NoOutcome, hung |-> FALSE,
     disconnected |-> FALSE]

\* const { data: similarDocs, error } is a local of the call: a resumed
\* call finds its own value.
\* (variant: similarDocs is declared at module level, so a resumed call
\* finds what the last running call left there)
ResumeDocs_ModuleLevel(saved) == similarDocs
ResumeDocs(saved) == saved.similarDocs

\* The event loop leaves the running call at its await and resumes call r.
Switch(r) ==
    /\ r \in DOMAIN parked
    /\ current' = r
    /\ parked' = [q \in (DOMAIN parked \ { r }) \cup { current } |->
                    IF q = current THEN Locals ELSE parked[q]]
    /\ pc' = parked[r].pc
    /\ query' = parked[r].query
    /\ vector' = parked[r].vector
    /\ rpcArg' = parked[r].rpcArg
    /\ similarDocs' = ResumeDocs(parked[r])
    /\ rpcError' = parked[r].rpcError
    /\ fpc' = parked[r].fpc
    /\ fetched' = parked[r].fetched
    /\ completed' = parked[r].completed
    /\ docsBodies' = parked[r].docsBodies
    /\ filledPrompt' = parked[r].filledPrompt
    /\ answer' = parked[r].answer
    /\ response' = parked[r].response
    /\ calls' = parked[r].calls
    /\ provider' = parked[r].provider
    /\ hung' = parked[r].hung
    /\ disconnected' = parked[r].disconnected
    /\ UNCHANGED << matcher, assembler, app >>

\* The replies of the store considered for concurrent requests: no row, or
\* one row, of either of two documents.
PairRows ==
    { <<>>,
      << [id |-> 1, similarity |-> 8] >>,
      << [id |-> 2, similarity |-> 5] >> }
PairBound == similarDocs.rows \in PairRows

PairInit ==
    /\ pc = "idle"
    /\ query = Undefined
    /\ vector = <<>>
    /\ rpcArg = <<>>
    /\ similarDocs = NoData
    /\ rpcError = FALSE
    /\ fpc = <<>>
    /\ fetched = <<>>
    /\ completed = <<>>
    /\ docsBodies = <<>>
    /\ filledPrompt = <<>>
    /\ answer = NoAnswer
    /\ response = NoResponse
    /\ calls = NoCalls
    /\ provider = NoOutcome
    /\ hung = FALSE
    /\ disconnected = FALSE
    /\ AppInit
    /\ matcher = MatcherIdle
    /\ assembler = AssemblerIdle
    /\ current = "a"
    /\ parked = [r \in Requests \ { "a" } |-> FreshLocals]

PairNext ==
    \/ Serve
    \/ JsonSettles
    \/ EmbeddingSettles
    \/ RpcSettles /\ PairBound'
    \/ \E i \in 1..MatchCount : FetchSettles(i)
    \/ \E i \in 1..MatchCount : TextSettles(i)
    \/ FanIn
    \/ CompletionSettles
    \/ Hang
    \/ \E r \in Requests : Switch(r)

PairSpec == PairInit /\ [][PairNext]_vars

\* ------------------------------------------------------- the chat screen
\* src/App.tsx: the handlers of the screen and the continuation of each
\* runPrompt call after its await of supabase.functions.invoke.
SUGGESTIONS ==
    << <<"How do I submit a project?">>,
       <<"How do I initialize a project?">>,
       <<"How do I set up my environment?">> >>
\* What the user can have in the text input.
Typed == { <<>>, << SP >>, <<"What is Expo?">> }

\* Everything but the screen.
request ==
    << pc, query, vector, rpcArg, similarDocs, rpcError, fpc, fetched,
       completed, docsBodies, filledPrompt, answer, response, calls,
       provider, hung, disconnected >>
backend == << request, matcher, assembler, current, parked >>

\* {showSuggestions && !messages.length && (...)}
SuggestionsShown == showSuggestions /\ Len(messages) = 0
\* {loading && (...)}
LoadingShown == loading

\* if (showSuggestions && text.length > 0) setShowSuggestions(false)
\* (variant: the suggestions follow the input and return when it is empty)
HideOnInput_FollowsInput(text) == Len(text) = 0
HideOnInput(text) ==
    IF showSuggestions /\ Len(text) > 0 THEN FALSE ELSE showSuggestions

\* onChangeText of the text input.
handleInputChange(text) ==
    /\ text # queryText
    /\ queryText' = text
    /\ showSuggestions' = HideOnInput(text)
    /\ UNCHANGED << messages, loading, invokes, backend >>

\* runPrompt(text) up to its await: nothing happens for a blank prompt;
\* otherwise the suggestions are hidden, the user's message is pushed, the
\* input is cleared, loading is set and the function is invoked.
UserMessage(promptText) ==
    [message |-> promptText, isUser |-> TRUE, docs |-> Undefined]
runPrompt(text, via) ==
    LET promptText == IF text = Undefined THEN queryText ELSE text
    IN  /\ Len(invokes) < MaxPrompts
        /\ IF Trim(promptText) = <<>>
           THEN UNCHANGED app
           ELSE /\ showSuggestions' = FALSE
                /\ messages' = << UserMessage(promptText) >> \o messages
                /\ queryText' = <<>>
                /\ loading' = TRUE
                /\ invokes' = Append(invokes,
                      [promptText |-> promptText, via |-> via,
                       state |-> "pending"])
        /\ UNCHANGED backend

\* onSubmitEditing of the input (the keyboard's return key) and onPress of
\* the send button: runPrompt().
Submit == runPrompt(Undefined, "input")

\* onPress of a suggestion chip, which exists only while the chips are
\* rendered: runPrompt(suggestion).
handleSuggestionPress(suggestion) ==
    /\ SuggestionsShown
    /\ runPrompt(suggestion, "suggestion")

\* What supabase.functions.invoke resolves with: an error (a non-2xx answer
\* of the function or a failed request), neither error nor data, or the
\* body of the answer.
InvokeResults ==
    { [kind |-> "error", message |-> Null],
      [kind |-> "nodata", message |-> Null] }
    \cup { [kind |-> "data", message |-> m] :
              m \in ModelTexts \cup { ClarificationMessage } }

\* if (error) return; if (data) setMessages(curr => [reply, ...curr])
\* (variant: the error is shown as a reply as well)
AssistantMessage(result) ==
    [message |-> result.message, isUser |-> FALSE, docs |-> <<>>]
PushReply_AlsoOnError(curr, result) ==
    IF result.kind = "nodata" THEN curr
    ELSE << AssistantMessage(result) >> \o curr
PushReply(curr, result) ==
    IF result.kind = "data" THEN << AssistantMessage(result) >> \o curr
    ELSE curr

\* The invoke of call i resolves and the call runs to its end.
InvokeSettles(i) ==
    /\ i \in 1..Len(invokes)
    /\ invokes[i].state = "pending"
    /\ \E result \in InvokeResults :
          /\ invokes' = [invokes EXCEPT ![i].state = result.kind]
          /\ messages' = PushReply(messages, result)
    /\ loading' = FALSE
    /\ UNCHANGED << queryText, showSuggestions, backend >>

AppNext ==
    \/ \E text \in Typed : handleInputChange(text)
    \/ Submit
    \/ \E k \in 1..Len(SUGGESTIONS) : handleSuggestionPress(SUGGESTIONS[k])
    \/ \E i \in 1..MaxPrompts : InvokeSettles(i)

AppSpec == Init /\ [][AppNext]_vars

\* ------------------------------------------------------------- properties
\* The handler returned after the RPC had been called.
RespondedAfterMatch == pc = "responded" /\ calls.match = 1
\* The RPC replied without error and with no row (or null).
EmptyMatch ==
    /\ RespondedAfterMatch
    /\ ~rpcError
    /\ (similarDocs.isNull \/ similarDocs.rows = <<>>)
\* The RPC replied with an error.
MatchFailed == RespondedAfterMatch /\ rpcError
NoDownstreamCall ==
    calls.fetch = 0 /\ calls.prompt = 0 /\ calls.gen = 0

\* C1: when the matcher returns no error and an empty (or null) list, the
\* response is HTTP 200 with the clarification message and docs = [], and
\* neither parseExpoDocs nor buildFullPrompt nor getCompletion was called.
C1_EmptyMatchShortCircuits ==
    EmptyMatch =>
        /\ response.status = 200
        /\ response.message = ClarificationMessage
        /\ response.docs = <<>>
        /\ NoDownstreamCall
C1_Witness ==
    EmptyMatch /\ ~similarDocs.isNull /\ similarDocs.rows = <<>>

\* C2: when the RPC returns an error, the response is HTTP 500 with
\* "Error matching documents." and docs = [], which differs in status and
\* message from the empty-match response, and nothing downstream is called.
C2_MatchErrorIs500 ==
    MatchFailed =>
        /\ response = [status |-> 500, message |-> MatchErrorMessage,
                       docs |-> <<>>]
        /\ response.status # NoMatchResponse.status
        /\ response.message # NoMatchResponse.message
        /\ NoDownstreamCall
C2_Witness == MatchFailed /\ provider.embed = "ok"

\* C3 as claimed: a matcher error and an empty match sequence end in the
\* same response, the clarification message with an empty docs list.
C3_ErrorAndEmptyCollapse ==
    (MatchFailed \/ EmptyMatch) =>
        response.message = ClarificationMessage /\ response.docs = <<>>

\* C3 as amended: a matcher error and an empty match sequence both end with
\* an empty docs list, but the caller can tell them apart: the error gives
\* HTTP 500 with "Error matching documents.", the empty sequence HTTP 200
\* with the clarification message.
C3_ErrorAndEmptyDiffer ==
    (MatchFailed \/ EmptyMatch) =>
        /\ response.docs = <<>>
        /\ (response.message = ClarificationMessage) <=> ~rpcError
        /\ (response.message = MatchErrorMessage) <=> rpcError
        /\ (response.status = 500) <=> rpcError
        /\ (response.status = 200) <=> ~rpcError
C3_Witness == MatchFailed /\ provider.embed = "failed" /\ vector = <<>>

\* C4: whenever the matcher returned a non-empty list and the success
\* response is reached, the response's docs is that list, entry by entry,
\* whichever fetches failed (all of them included).
C4_DocsAreTheMatches ==
    (pc = "responded" /\ calls.gen = 1 /\ response.status = 200) =>
        /\ Len(similarDocs.rows) > 0
        /\ Len(response.docs) = Len(similarDocs.rows)
        /\ \A i \in 1..Len(similarDocs.rows) :
              response.docs[i] = similarDocs.rows[i]
C4_Witness ==
    /\ pc = "responded" /\ calls.gen = 1 /\ response.status = 200
    /\ Len(similarDocs.rows) = MatchCount
    /\ \A i \in 1..Len(fetched) : fetched[i].failure # "none"

\* A fetch of the request failed: non-2xx, a throw of the network call, or a
\* throw of the front-matter parser.
Failed(i) == fpc[i] = "done" /\ fetched[i].failure # "none"
\* The RPC returned at least one row and the handler has returned.
MatchedAndResponded ==
    RespondedAfterMatch /\ ~rpcError /\ Len(similarDocs.rows) > 0

\* C5 as claimed: parseExpoDocs turns a non-2xx status, a network throw and
\* a parse throw into a document with body "", so a request with at least
\* one match ends with HTTP 200 whichever of its fetches fail.
C5_FetchFailuresNeverFailTheRequest ==
    /\ \A i \in 1..Len(fpc) : Failed(i) => fetched[i].body = <<>>
    /\ (MatchedAndResponded /\ \E i \in 1..Len(fpc) : Failed(i)) =>
          response.status = 200

\* C6: for every completion order of the fetches, the context is the
\* newline-join of one segment per match, segment i being the body fetched
\* for match i ("" when that fetch failed), in match order, empty segments
\* included.
Segment(i) == IF Failed(i) THEN <<>> ELSE fetched[i].body
Count(t, str) == Cardinality({ k \in 1..Len(str) : str[k] = t })
C6_ContextFollowsMatchOrder ==
    calls.prompt = 1 =>
        /\ Len(fetched) = Len(similarDocs.rows)
        /\ docsBodies = Join([i \in 1..Len(similarDocs.rows) |-> Segment(i)])
        /\ Count(NL, docsBodies) = Len(similarDocs.rows) - 1
C6_Witness ==
    /\ calls.prompt = 1
    /\ completed = << 3, 1, 2 >>
    /\ Failed(1)
    /\ fetched[2].body = << "body-b" >>
    /\ fetched[3].body = << "body-a" >>

\* C7: when the completion call throws, getCompletion returns the fallback
\* text and the request ends with HTTP 200, that text as message and the
\* matcher's rows as docs.
C7_GenerationFailureDegrades ==
    (pc = "responded" /\ provider.gen = "throws") =>
        /\ answer = [defined |-> TRUE, content |-> FallbackCompletion]
        /\ response.status = 200
        /\ response.message = FallbackCompletion
        /\ response.docs = similarDocs.rows
C7_Witness ==
    /\ pc = "responded"
    /\ provider.gen = "throws"
    /\ Len(response.docs) = 2

\* C8: once generateEmbeddings has been called, the RPC is called with the
\* vector it returned, whatever the provider did; a provider failure gives
\* the empty vector, and that is what the RPC receives.
C8_MatcherAlwaysFollowsEmbedding ==
    (calls.embed = 1 /\ pc # "embedding") =>
        /\ calls.match = 1
        /\ rpcArg = vector
        /\ provider.embed = "failed" => (vector = <<>> /\ rpcArg = <<>>)
        /\ provider.embed = "ok" => rpcArg = ModelVector
C8_Witness ==
    pc = "matching" /\ provider.embed = "failed" /\ rpcArg = <<>>
       /\ query # <<>> /\ query # Undefined

\* C9 as claimed: once the matcher has returned at least one row the
\* request ends with HTTP 200; nothing the fetches or the generator return
\* (an empty choices array included) leads to HTTP 500.
C9_MatchedRequestsEndWith200 ==
    MatchedAndResponded => response.status = 200

\* C10 as claimed: every exception that no collaborator contains becomes
\* the HTTP 500 response of the outer catch, and the handler never throws.
C10_HandlerNeverThrows ==
    /\ pc # "thrown"
    /\ (pc = "responded" /\ (calls.embed = 0 \/ provider.gen = "nochoices"))
          => response = OuterCatch

\* C11: in every response of the handler the message is one of the fixed
\* texts or the content of the completion's first choice, never the text of
\* an error; every HTTP 500 response has docs = [].
FixedMessages ==
    { ClarificationMessage, MatchErrorMessage, RequestErrorMessage,
      FallbackCompletion }
C11_MessagesAreFixedOrGenerated ==
    pc = "responded" =>
        /\ response.status \in { 200, 500 }
        /\ \/ response.message \in FixedMessages
           \/ /\ provider.gen = "choice"
              /\ response.message \in ModelTexts \cup { Null }
              /\ response.message = answer.content
        /\ response.status = 500 => response.docs = <<>>
        /\ response.status = 500 =>
              response.message \in { MatchErrorMessage, RequestErrorMessage }
C11_Witness ==
    /\ pc = "responded"
    /\ provider.gen = "nochoices"
    /\ response.status = 500
    /\ Len(similarDocs.rows) > 0

\* C12: within one request the embedding provider, the matcher and the
\* generator are each called at most once, and the fetcher exactly once per
\* returned row (so at most match_count times), whatever fails.
C12_NoStageIsRetried ==
    /\ calls.embed <= 1
    /\ calls.match <= 1
    /\ calls.prompt <= 1
    /\ calls.gen <= 1
    /\ calls.fetch <= MatchCount
    /\ calls.fetch \in { 0, Len(similarDocs.rows) }
    /\ (calls.match = 1 /\ pc # "matching" /\ ~rpcError) =>
          calls.fetch = Len(similarDocs.rows)
C12_Witness ==
    /\ pc = "responded"
    /\ calls = [embed |-> 1, match |-> 1, fetch |-> MatchCount,
                prompt |-> 1, gen |-> 1]
    /\ \A i \in 1..Len(fetched) : fetched[i].failure # "none"
    /\ provider.gen = "throws"

\* The stored documents that clear the threshold of the call.
StoredSimilarity(id) == One - matcher.dist[id]
Clearing == { id \in Corpus : StoredSimilarity(id) > matcher.threshold }
Returned == { matcher.rows[i].id : i \in 1..Len(matcher.rows) }

\* C13: for every threshold, positive limit and table content, the matcher
\* returns only rows whose similarity is strictly greater than the
\* threshold, and at most limit rows; a row whose similarity equals the
\* threshold is left out.
C13_OnlyAboveThresholdAtMostLimit ==
    matcher.pc = "returned" =>
        /\ Len(matcher.rows) <= matcher.count
        /\ \A i \in 1..Len(matcher.rows) :
              /\ matcher.rows[i].id \in Corpus
              /\ matcher.rows[i].similarity = StoredSimilarity(matcher.rows[i].id)
              /\ matcher.rows[i].similarity > matcher.threshold
        /\ \A id \in Corpus :
              StoredSimilarity(id) = matcher.threshold => id \notin Returned
C13_Witness ==
    /\ matcher.pc = "returned"
    /\ \E id \in Corpus : StoredSimilarity(id) = matcher.threshold
    /\ Len(matcher.rows) = matcher.count
    /\ Cardinality(Clearing) > matcher.count

\* The rows kept are the most similar ones that clear the threshold.
KeepsTheBest ==
    /\ Cardinality(Returned) = Len(matcher.rows)
    /\ Returned \subseteq Clearing
    /\ Len(matcher.rows) < matcher.count => Returned = Clearing
    /\ \A id \in Clearing \ Returned : \A kept \in Returned :
          StoredSimilarity(id) <= StoredSimilarity(kept)

\* C14 as claimed: the returned sequence is strictly descending by
\* similarity and holds the most similar rows.
C14_StrictlyDescending ==
    matcher.pc = "returned" =>
        /\ \A i \in 1..(Len(matcher.rows) - 1) :
              matcher.rows[i].similarity > matcher.rows[i + 1].similarity
        /\ KeepsTheBest

\* C14 as amended: the returned sequence is descending by similarity, rows
\* of equal similarity being adjacent in an order the store chooses, and
\* holds the most similar rows that clear the threshold.
C14_Descending ==
    matcher.pc = "returned" =>
        /\ \A i \in 1..(Len(matcher.rows) - 1) :
              matcher.rows[i].similarity >= matcher.rows[i + 1].similarity
        /\ KeepsTheBest
C14_Witness ==
    /\ matcher.pc = "returned"
    /\ Len(matcher.rows) = 3
    /\ matcher.rows[1].similarity > matcher.rows[2].similarity
    /\ matcher.rows[2].similarity = matcher.rows[3].similarity
    /\ Cardinality(Clearing) > 3

\* C15 as claimed: every request the handler receives gets a response from
\* it; the handler never ends without having responded.
C15_EveryRequestIsAnswered ==
    pc \in { "responded", "thrown" } =>
        /\ pc = "responded"
        /\ response # NoResponse
        /\ response.status \in { 200, 500 }

\* C16 as claimed: every outbound call is bounded by a timeout, so a request
\* whose upstream call never returns is nevertheless answered.
C16_HungCallsTimeOut == hung ~> (pc = "responded")

\* C17 as claimed: generateEmbeddings is never called with a query that is
\* missing, empty or made of white space only.
C17_NoEmptyQueryIsEmbedded ==
    calls.embed > 0 => (query # Undefined /\ Trim(query) # <<>>)

LocalsOf(r) == IF r = current THEN Locals ELSE parked[r]

\* What a call answers when it runs alone, from how its own body, its own
\* RPC and its own completion settled.
Alone(l) ==
    IF l.calls.embed = 0 THEN
        [status |-> 500, message |-> RequestErrorMessage, docs |-> <<>>]
    ELSE IF l.provider.rpc[1] THEN
        [status |-> 500, message |-> MatchErrorMessage, docs |-> <<>>]
    ELSE IF l.provider.rpc[2].isNull \/ l.provider.rpc[2].rows = <<>> THEN
        [status |-> 200, message |-> ClarificationMessage, docs |-> <<>>]
    ELSE IF l.provider.gen = "nochoices" THEN
        [status |-> 500, message |-> RequestErrorMessage, docs |-> <<>>]
    ELSE IF l.provider.gen = "throws" THEN
        [status |-> 200, message |-> FallbackCompletion,
         docs |-> l.provider.rpc[2].rows]
    ELSE
        [status |-> 200, message |-> l.answer.content,
         docs |-> l.provider.rpc[2].rows]

\* C19: for every interleaving of two requests, the response of each is
\* the one it would have given alone with the same collaborator outcomes.
C19_RequestsAreIsolated ==
    \A r \in DOMAIN parked \cup { current } :
        LocalsOf(r).pc = "responded" =>
            LocalsOf(r).response = Alone(LocalsOf(r))
C19_Witness ==
    /\ current = "a"
    /\ "b" \in DOMAIN parked
    /\ pc = "responded" /\ parked["b"].pc = "responded"
    /\ response.status = 200 /\ parked["b"].response.status = 200
    /\ Len(response.docs) = 1 /\ Len(parked["b"].response.docs) = 1
    /\ response.docs # parked["b"].response.docs

\* Two calls were answered for the same query and the same vector, and both
\* RPCs returned rows of one and the same content of the documents table.
SameQuerySameCorpus(a, b) ==
    /\ a.pc = "responded" /\ b.pc = "responded"
    /\ a.calls.match = 1 /\ b.calls.match = 1
    /\ a.query = b.query
    /\ a.vector = b.vector
    /\ ~a.provider.rpc[1] /\ ~b.provider.rpc[1]
    /\ ~a.provider.rpc[2].isNull /\ ~b.provider.rpc[2].isNull
    /\ \E dist \in [Corpus -> Dists] :
          LET table == match_documents(dist, MatchThreshold, MatchCount)
          IN  a.provider.rpc[2].rows \in table /\ b.provider.rpc[2].rows \in table

\* C20 as claimed: two calls with the same query, the same vector and an
\* unchanged corpus answer with the same docs list, whatever the fetches and
\* the generator return.
C20_SameQuerySameDocs ==
    SameQuerySameCorpus(LocalsOf("a"), LocalsOf("b")) =>
        LocalsOf("a").response.docs = LocalsOf("b").response.docs

\* part occurs in text from position at on.
Occurs(part, text, at) ==
    /\ at >= 1
    /\ at + Len(part) - 1 <= Len(text)
    /\ SubSeq(text, at, at + Len(part) - 1) = part
\* The grounding instruction up to and including the CONTEXT title, and the
\* closing instruction, as they stand in the trimmed template.
Instruction == Tail(PromptHead)
Closing == TrimEnd(PromptTail)

\* C21: buildFullPrompt depends on its two arguments only (a second call
\* with the same arguments returns the same prompt and nothing else
\* changes), and the prompt is the grounding instruction, which contains
\* the fallback phrase, then the context unchanged under CONTEXT:, then the
\* query verbatim after USER QUERY:, in that order.
C21_PromptIsInstructionContextQuery ==
    /\ assembler.pc = "again" => assembler.again = assembler.prompt
    /\ assembler.pc \in { "returned", "again" } =>
          LET p == assembler.prompt
              c == assembler.docsContext
              q == assembler.query
              atContext == Len(Instruction) + 1
              atTitle == atContext + Len(c)
              atQuery == atTitle + Len(PromptMiddle)
              atClosing == atQuery + Len(q)
          IN  /\ Occurs(Instruction, p, 1)
              /\ \E i \in 1..Len(Instruction) :
                    Occurs(ClarificationMessage, Instruction, i)
              /\ Instruction[Len(Instruction) - 1] = "CONTEXT:"
              /\ Occurs(c, p, atContext)
              /\ Occurs(PromptMiddle, p, atTitle)
              /\ PromptMiddle[Len(PromptMiddle)] = "USER QUERY: "
              /\ Occurs(q, p, atQuery)
              /\ Occurs(Closing, p, atClosing)
              /\ Len(p) = atClosing + Len(Closing) - 1
C21_Witness ==
    /\ assembler.pc = "again"
    /\ assembler.docsContext = << NL, "USER QUERY: " >>
    /\ assembler.query = << "How do I submit a project?", SP >>
    /\ assembler.prompt # <<>>

\* C22 as claimed: once the caller has disconnected, the request starts no
\* further outbound call: neither the matcher nor a fetch nor the generator
\* is called after the disconnect.
C22_NoCallAfterDisconnect ==
    [][disconnected =>
          /\ calls'.match = calls.match
          /\ calls'.fetch = calls.fetch
          /\ calls'.gen = calls.gen]_vars

\* C23: within one request the matcher is called only after the embedding
\* call has completed, the fetches are started only after the matcher has
\* returned its rows, all of them are started before any of them is awaited
\* (none can have settled while another is not yet started), and the
\* generator is called only after every fetch of the request has settled.
C23_StagesAreOrdered ==
    /\ calls.match > 0 => (calls.embed = 1 /\ provider.embed # "none")
    /\ calls.fetch > 0 =>
          /\ calls.match = 1
          /\ pc \notin { "idle", "json", "embedding", "matching" }
          /\ provider.rpc = << FALSE, similarDocs >>
          /\ Len(similarDocs.rows) > 0
    /\ (pc = "fetching" \/ completed # <<>>) =>
          /\ calls.fetch = Len(similarDocs.rows)
          /\ Len(fpc) = Len(similarDocs.rows)
    /\ calls.gen > 0 =>
          /\ calls.fetch = Len(similarDocs.rows)
          /\ \A i \in 1..Len(similarDocs.rows) : fpc[i] = "done"
          /\ Range(completed) = 1..Len(similarDocs.rows)
          /\ Len(completed) = Len(similarDocs.rows)
C23_Witness ==
    /\ pc = "generating"
    /\ calls.gen = 1
    /\ completed = << 2, 3, 1 >>
    /\ fetched[1].failure = "none"

\* C24: on the chat screen showSuggestions never goes from false back to
\* true; it is false as soon as the input holds a text or a prompt was
\* sent; and the suggestion chips are rendered, hence pressed, only while
\* showSuggestions is true and the message list is empty.
C24_SuggestionsNeverComeBack ==
    /\ [](queryText # <<>> => ~showSuggestions)
    /\ [](messages # <<>> => ~showSuggestions)
    /\ [][~showSuggestions => ~showSuggestions']_vars
    /\ [][(/\ Len(invokes') > Len(invokes)
            /\ invokes'[Len(invokes')].via = "suggestion")
             => (showSuggestions /\ messages = <<>>)]_vars
C24_Witness ==
    /\ ~showSuggestions
    /\ queryText = <<>>
    /\ messages = <<>>

\* A runPrompt call is at its await of supabase.functions.invoke.
Pending == { i \in 1..Len(invokes) : invokes[i].state = "pending" }

\* C25 as claimed: on the chat screen loading is true exactly while an
\* invoke has not returned, overlapping runPrompt calls included.
C25_LoadingWhilePending == LoadingShown <=> Pending # {}

\* The messages of the user and the replies, newest first.
UserMessages == { k \in 1..Len(messages) : messages[k].isUser }
Replies == { k \in 1..Len(messages) : ~messages[k].isUser }
Answered == { i \in 1..Len(invokes) : invokes[i].state = "data" }
\* Call i leaves its await in this step.
Returns(i) ==
    /\ i \in 1..Len(invokes)
    /\ invokes[i].state = "pending"
    /\ invokes'[i].state # "pending"

\* C26: every runPrompt call that passes its guard pushes exactly one user
\* message, and its continuation pushes one assistant message when the
\* invoke returned data and leaves the list as it is when it returned an
\* error or no data; so there are never more assistant messages than user
\* messages.
C26_OneUserMessageAtMostOneReply ==
    /\ [](Cardinality(UserMessages) = Len(invokes))
    /\ [](Cardinality(Replies) = Cardinality(Answered))
    /\ [](Cardinality(Replies) <= Cardinality(UserMessages))
    /\ [][Len(invokes') > Len(invokes) =>
            /\ Len(invokes') = Len(invokes) + 1
            /\ messages' =
                  << [message |-> invokes'[Len(invokes')].promptText,
                      isUser |-> TRUE, docs |-> Undefined] >> \o messages]_vars
    /\ [][\A i \in 1..MaxPrompts : Returns(i) =>
            IF invokes'[i].state = "data"
            THEN /\ Len(messages') = Len(messages) + 1
                 /\ ~messages'[1].isUser
                 /\ Tail(messages') = messages
            ELSE messages' = messages]_vars
C26_Witness ==
    /\ Len(invokes) = 3
    /\ invokes[1].state = "data"
    /\ invokes[2].state = "error"
    /\ invokes[3].state = "nodata"
    /\ Len(messages) = 4
    /\ ~messages[1].isUser

====
